---------------------------- MODULE Spec2Model ----------------------------
(***************************************************************************)
(* AERAS backend (backend/server.js as reproduced in                       *)
(* docs/report_summary.md, latest revision, lines 1400-2551; /confirmPickup *)
(* from the previous revision, lines 1186-1201, the route the puller app   *)
(* still calls): the ride dispatcher, the accept / reject / complete       *)
(* handlers, the WebSocket presence handlers and the points ledger.        *)
(*                                                                         *)
(* Every handler is an async function.  It runs on Node's single thread,   *)
(* so the code between two awaits is one atomic step, and another handler  *)
(* may run at every await.  One action of this module is one such step: a  *)
(* database operation taking effect, or a block of synchronous code that   *)
(* touches the in-memory maps or sends messages.  Synchronous code that    *)
(* touches only the handler's locals is folded into the database step next *)
(* to it.                                                                  *)
(***************************************************************************)
EXTENDS Integers, Sequences, FiniteSets, TLC

\* ------------------------------------------------------------------ bounds
NumPullers == 2
MaxRides == 2
NumBlocks == 1
NumConns == 2
MaxInFlight == 2
MaxLedger == 3
MaxShortTicks == 1
MaxLongTicks == 3

Pullers == 1..NumPullers
RideIds == 1..MaxRides
Blocks == 1..NumBlocks
Conns == 1..NumConns
Slots == 1..MaxInFlight

\* ------------------------------------------------------- program constants
\* Time is counted in minutes.
DEDUP_WINDOW_MIN == 5
EXPIRY_DAYS == 180
MINUTES_PER_DAY == 1440
BASE_POINTS == 10
ExpiryMinutes == EXPIRY_DAYS * MINUTES_PER_DAY

None == 0
NoTime == -1
NoPoints == -1

\* Puller.status enum plus "NONE" for a document that does not exist yet.
PullerStatuses == {"AVAILABLE", "ON_TRIP", "SUSPENDED"}

\* The drop distances (whole metres, destination to drop point) a completeRide
\* request is tried with; NoDrop stands for missing drop coordinates.
NoDrop == -1
\* Drop coordinates sent with a latitude or longitude of 0: `!dropLatitude`
\* is true of them as it is of missing ones.
ZeroDrop == -2
DropDistances == {0, 55, 105}

\* Every whole-metre drop distance up to MaxDrop.
MaxDrop == 110
TierDistances == 0..MaxDrop

\* A ride's recorded drop distance is kept in decimetres, so that a distance
\* between 0 and 1 m can be told from both.
DM_PER_M == 10

\* Positions on a line, LocStepM metres apart; block b stands at position b.
\* A puller's lastKnownLocation is a position, or None when it has none (the
\* code also takes a latitude or longitude of 0 for none).
MaxLoc == 2
LocStepM == 1000
Locs == 1..MaxLoc
Infinity == 1000000

VARIABLES
  now,                    \* the wall clock, in minutes
  rides,                  \* Ride collection: RideIds -> document ("NONE": not created)
  pullers,                \* Puller collection: Pullers -> document ("NONE": not created)
  ledger,                 \* PointsHistory collection, in insertion order
  conns,                  \* WebSocket objects: Conns -> [open, pullerId]
  pullerSockets,          \* Map pullerId => ws (None: no entry)
  activeRideRequests,     \* Map rideId => { rideDoc, pullersNotified } (present flag)
  rideAcceptanceTimeouts, \* Map rideId => timeout handle (its key set)
  timers,                 \* rides whose setTimeout is armed (not fired, not cleared)
  calls,                  \* handler invocations: Slots -> locals, position and response
  out                     \* the messages sent by the last step

vars == <<now, rides, pullers, ledger, conns, pullerSockets, activeRideRequests,
          rideAcceptanceTimeouts, timers, calls, out>>

\* ----------------------------------------------------------------- helpers
NoRide == [status |-> "NONE", blockId |-> None, pullerId |-> None,
           createdAt |-> NoTime, acceptedAt |-> NoTime,
           rewardPoints |-> NoPoints, verif |-> "NONE",
           dropDistance |-> NoDrop, completedAt |-> NoTime]

NoPuller == [status |-> "NONE", totalPoints |-> 0, loc |-> None]

NoRequest == [present |-> FALSE, docStatus |-> "NONE", pullersNotified |-> {}]

IdleCall == [op |-> "none", pc |-> "idle", ride |-> None, puller |-> None,
             snapStatus |-> "NONE", snapPuller |-> None, snapAt |-> NoTime,
             n |-> 0, t |-> NoTime, todo |-> <<>>, flag |-> FALSE, delta |-> 0,
             res |-> 0]

InFlight(c) == calls[c].pc \notin {"idle", "done"}

NumInFlight == Cardinality({c \in Slots : InFlight(c)})

\* The slot a new invocation takes: the lowest one not in flight.
FreeSlot == CHOOSE c \in Slots : ~InFlight(c) /\ \A d \in Slots : d < c => InFlight(d)

\* The responses of finished invocations stay readable until the next event.
Settled == [c \in Slots |-> IF InFlight(c) THEN calls[c] ELSE IdleCall]

\* An event is taken while fewer than k invocations are in flight; one that
\* has no awaits of its own starts no invocation ...
Quiet(k) ==
  /\ NumInFlight < k
  /\ calls' = Settled

\* ... and one that has takes a slot.
Begin(k, call) ==
  /\ NumInFlight < k
  /\ calls' = [Settled EXCEPT ![FreeSlot] = call]

Finish(c, code) == calls' = [calls EXCEPT ![c].pc = "done", ![c].res = code]

Goto(c, label) == calls' = [calls EXCEPT ![c].pc = label]

\* ride.status = v; await ride.save(): Mongoose writes the paths whose value
\* differs from the one the document was read with.
Saved(read, v, stored) == IF v = read THEN stored ELSE v

\* A message as sent; no payload of the dispatcher has a priority or a
\* distance key ("NONE").
Msg(conn, type, rideId) == [to |-> conn, puller |-> conns[conn].pullerId,
                            type |-> type, rideId |-> rideId, priority |-> "NONE"]

ShortTicks == (now % ExpiryMinutes) \div DEDUP_WINDOW_MIN
LongTicks == now \div ExpiryMinutes

Init ==
  /\ now = 0
  /\ rides = [r \in RideIds |-> NoRide]
  /\ pullers = [p \in Pullers |-> NoPuller]
  /\ ledger = <<>>
  /\ conns = [c \in Conns |-> [open |-> FALSE, pullerId |-> None]]
  /\ pullerSockets = [p \in Pullers |-> None]
  /\ activeRideRequests = [r \in RideIds |-> NoRequest]
  /\ rideAcceptanceTimeouts = {}
  /\ timers = {}
  /\ calls = [c \in Slots |-> IdleCall]
  /\ out = {}

\* ------------------------------------------------------------------- clock
\* Five minutes pass (the de-duplication window of /requestRide); no handler
\* runs that long.
TickMinutes ==
  /\ NumInFlight = 0
  /\ ShortTicks < MaxShortTicks
  /\ now' = now + DEDUP_WINDOW_MIN
  /\ calls' = Settled
  /\ out' = {}
  /\ UNCHANGED <<rides, pullers, ledger, conns, pullerSockets, activeRideRequests,
                 rideAcceptanceTimeouts, timers>>

\* 180 days pass (the expiration period of awarded points).
TickDays ==
  /\ NumInFlight = 0
  /\ LongTicks < MaxLongTicks
  /\ now' = now + ExpiryMinutes
  /\ calls' = Settled
  /\ out' = {}
  /\ UNCHANGED <<rides, pullers, ledger, conns, pullerSockets, activeRideRequests,
                 rideAcceptanceTimeouts, timers>>

\* --------------------------------------------------- WebSocket dispatcher
\* wss.on("connection"): a new ws object, not registered yet.
Connect(k, w) ==
  /\ Quiet(k)
  /\ ~conns[w].open
  /\ \A c \in Slots : ~(InFlight(c) /\ calls[c].op \in {"register", "close"} /\ calls[c].n = w)
  /\ \A p \in Pullers : pullerSockets[p] # w
  /\ conns' = [conns EXCEPT ![w] = [open |-> TRUE, pullerId |-> None]]
  /\ out' = {}
  /\ UNCHANGED <<now, rides, pullers, ledger, pullerSockets, activeRideRequests,
                 rideAcceptanceTimeouts, timers>>

\* A REGISTER that leaves the entry of a puller that has one as it is.
RegisterStartKeepFirst(k, w, p) ==
  /\ conns[w].open
  /\ conns[w].pullerId \in {None, p}
  /\ Begin(k, [IdleCall EXCEPT !.op = "register", !.pc = "db", !.puller = p, !.n = w])
  /\ pullerSockets' = IF pullerSockets[p] = None
                        THEN [pullerSockets EXCEPT ![p] = w] ELSE pullerSockets
  /\ conns' = [conns EXCEPT ![w].pullerId = p]
  /\ out' = {}
  /\ UNCHANGED <<now, rides, pullers, ledger, activeRideRequests,
                 rideAcceptanceTimeouts, timers>>

\* ws.on("message") with a REGISTER message: the synchronous part.  A client
\* sends REGISTER with its own id, on connecting.
RegisterStart(k, w, p) ==
  /\ conns[w].open
  /\ conns[w].pullerId \in {None, p}
  /\ Begin(k, [IdleCall EXCEPT !.op = "register", !.pc = "db", !.puller = p, !.n = w])
  /\ pullerSockets' = [pullerSockets EXCEPT ![p] = w]
  /\ conns' = [conns EXCEPT ![w].pullerId = p]
  /\ out' = {}
  /\ UNCHANGED <<now, rides, pullers, ledger, activeRideRequests,
                 rideAcceptanceTimeouts, timers>>

\* Puller.findOneAndUpdate({pullerId}, {status: "AVAILABLE"}, {upsert: true}),
\* then ws.send(REGISTERED).
Upsert(p, status) ==
  [pullers EXCEPT ![p] = IF pullers[p].status = "NONE"
                         THEN [NoPuller EXCEPT !.status = status]
                         ELSE [pullers[p] EXCEPT !.status = status]]

RegisterDb(c) ==
  /\ calls[c].op = "register" /\ calls[c].pc = "db"
  /\ pullers' = Upsert(calls[c].puller, "AVAILABLE")
  /\ out' = {[to |-> calls[c].n, puller |-> calls[c].puller,
              type |-> "REGISTERED", rideId |-> None, priority |-> "NONE"]}
  /\ Finish(c, 200)
  /\ UNCHANGED <<now, rides, ledger, conns, pullerSockets, activeRideRequests,
                 rideAcceptanceTimeouts, timers>>

\* ws.on("close"): the synchronous part.
CloseStart(k, w) ==
  /\ conns[w].open
  /\ conns' = [conns EXCEPT ![w] = [open |-> FALSE, pullerId |-> None]]
  /\ IF conns[w].pullerId # None
       THEN /\ Begin(k, [IdleCall EXCEPT !.op = "close", !.pc = "db",
                                         !.puller = conns[w].pullerId, !.n = w])
            /\ pullerSockets' = [pullerSockets EXCEPT ![conns[w].pullerId] = None]
       ELSE /\ Quiet(k)
            /\ UNCHANGED pullerSockets
  /\ out' = {}
  /\ UNCHANGED <<now, rides, pullers, ledger, activeRideRequests,
                 rideAcceptanceTimeouts, timers>>

\* Puller.findOneAndUpdate({pullerId: ws.pullerId}, {status: "AVAILABLE"}).
SetStatus(p, status) ==
  IF p \notin Pullers THEN pullers
  ELSE [pullers EXCEPT ![p] = IF pullers[p].status = "NONE" THEN pullers[p]
                              ELSE [pullers[p] EXCEPT !.status = status]]

CloseDb(c) ==
  /\ calls[c].op = "close" /\ calls[c].pc = "db"
  /\ pullers' = SetStatus(calls[c].puller, "AVAILABLE")
  /\ out' = {}
  /\ Finish(c, 200)
  /\ UNCHANGED <<now, rides, ledger, conns, pullerSockets, activeRideRequests,
                 rideAcceptanceTimeouts, timers>>

\* ---------------------------------------------------------------- dispatch
calculateDistance(b, loc) == LocStepM * (IF loc > b THEN loc - b ELSE b - loc)

\* getPullersByProximity: every AVAILABLE puller, nearest first; a puller with
\* no location gets distance Infinity and stays in the list.
ProximityOf(b, p) ==
  IF pullers[p].loc = None THEN Infinity ELSE calculateDistance(b, pullers[p].loc)

\* The pullers of S in ascending distance from block b; ties keep the order
\* Puller.find returned them in (Array.sort is stable), taken to be by id.
RECURSIVE SortByProximity(_, _)
SortByProximity(S, b) ==
  IF S = {} THEN <<>>
  ELSE LET m == CHOOSE x \in S : \A y \in S :
                  \/ ProximityOf(b, x) < ProximityOf(b, y)
                  \/ (ProximityOf(b, x) = ProximityOf(b, y) /\ x <= y)
       IN <<m>> \o SortByProximity(S \ {m}, b)

SeqToSet(q) == {q[i] : i \in 1..Len(q)}

RECURSIVE SetToSeq(_)
SetToSeq(S) == IF S = {} THEN <<>>
               ELSE LET m == CHOOSE x \in S : \A y \in S : x <= y
                    IN <<m>> \o SetToSeq(S \ {m})

getPullersByProximity(b) ==
  SortByProximity({p \in Pullers : pullers[p].status = "AVAILABLE"}, b)

NumCreated == Cardinality({r \in RideIds : rides[r].status # "NONE"})
NumCreating == Cardinality({c \in Slots : calls[c].op = "requestRide" /\ calls[c].pc = "create"})
NewRideId == CHOOSE r \in RideIds : rides[r].status = "NONE" /\ \A q \in RideIds : q < r => rides[q].status # "NONE"

\* POST /requestRide: validation, then Ride.findOne for an active ride of the
\* block (latest first) and the five-minute check.
ActiveForBlock(b) ==
  {r \in RideIds : rides[r].blockId = b
                   /\ rides[r].status \in {"PENDING_ASSIGNMENT", "ASSIGNED", "ACCEPTED"}}

ExistingRideRecent(b) ==
  \E r \in ActiveForBlock(b) :
     /\ \A q \in ActiveForBlock(b) : rides[q].createdAt <= rides[r].createdAt
     /\ rides[r].createdAt > now - DEDUP_WINDOW_MIN

RequestRideStart(k, m, b) ==
  /\ NumCreated + NumCreating < m
  /\ LET call == [IdleCall EXCEPT !.op = "requestRide", !.n = b]
     IN IF b = None
          THEN Begin(k, [call EXCEPT !.pc = "done", !.res = 400])
          ELSE IF ExistingRideRecent(b)
                 THEN Begin(k, [call EXCEPT !.pc = "done", !.res = 409])
                 ELSE Begin(k, [call EXCEPT !.pc = "create"])
  /\ out' = {}
  /\ UNCHANGED <<now, rides, pullers, ledger, conns, pullerSockets, activeRideRequests,
                 rideAcceptanceTimeouts, timers>>

\* Ride.create({status: "PENDING_ASSIGNMENT", ...}).
\* Ride.create of a request that computed its rideId, `ride-${Date.now()}`, in
\* the millisecond in which another one did: the unique index on rideId
\* refuses the second document and the handler ends with the exception.
RequestRideCreateClash(c) ==
  /\ calls[c].op = "requestRide" /\ calls[c].pc = "create"
  /\ \E r \in RideIds : rides[r].status # "NONE" /\ rides[r].createdAt = now
  /\ Finish(c, 500)
  /\ out' = {}
  /\ UNCHANGED <<now, rides, pullers, ledger, conns, pullerSockets, activeRideRequests,
                 rideAcceptanceTimeouts, timers>>

RequestRideCreate(c) ==
  /\ calls[c].op = "requestRide" /\ calls[c].pc = "create"
  /\ rides' = [rides EXCEPT ![NewRideId] =
                 [NoRide EXCEPT !.status = "PENDING_ASSIGNMENT",
                                !.blockId = calls[c].n, !.createdAt = now]]
  /\ calls' = [calls EXCEPT ![c].pc = "find", ![c].ride = NewRideId]
  /\ out' = {}
  /\ UNCHANGED <<now, pullers, ledger, conns, pullerSockets, activeRideRequests,
                 rideAcceptanceTimeouts, timers>>

\* assignRideToPuller: await getPullersByProximity(...).
AssignFind(c) ==
  /\ calls[c].op = "requestRide" /\ calls[c].pc = "find"
  /\ calls' = [calls EXCEPT ![c].pc = "send", ![c].todo = getPullersByProximity(calls[c].n)]
  /\ out' = {}
  /\ UNCHANGED <<now, rides, pullers, ledger, conns, pullerSockets, activeRideRequests,
                 rideAcceptanceTimeouts, timers>>

\* assignRideToPuller: the online filter, the ASSIGN_RIDE sends, or the return
\* of null that leaves the ride PENDING_ASSIGNMENT.
Online(q) == SelectSeq(q, LAMBDA p : pullerSockets[p] # None)

AssignMsgs(q, r) == {Msg(pullerSockets[q[i]], "ASSIGN_RIDE", r) : i \in 1..Len(q)}

AssignSend(c) ==
  /\ calls[c].op = "requestRide" /\ calls[c].pc = "send"
  /\ LET onlinePullers == Online(calls[c].todo)
     IN IF Len(onlinePullers) = 0
          THEN /\ Finish(c, 200)
               /\ out' = {}
          ELSE /\ calls' = [calls EXCEPT ![c].pc = "save", ![c].todo = onlinePullers]
               /\ out' = AssignMsgs(onlinePullers, calls[c].ride)
  /\ UNCHANGED <<now, rides, pullers, ledger, conns, pullerSockets, activeRideRequests,
                 rideAcceptanceTimeouts, timers>>

\* The send loop when ws.send throws for its i-th puller (a socket that is no
\* longer open): the loop has no try/catch, so the pullers after it are not
\* alerted, assignRideToPuller and the handler that awaits it end with the
\* exception, and the ride is neither saved as ASSIGNED nor given a timer.
AssignSendThrow(c, i) ==
  /\ calls[c].op = "requestRide" /\ calls[c].pc = "send"
  /\ LET onlinePullers == Online(calls[c].todo)
     IN /\ i \in 1..Len(onlinePullers)
        /\ out' = AssignMsgs(SubSeq(onlinePullers, 1, i - 1), calls[c].ride)
  /\ Finish(c, 500)
  /\ UNCHANGED <<now, rides, pullers, ledger, conns, pullerSockets, activeRideRequests,
                 rideAcceptanceTimeouts, timers>>

\* rideDoc.status = "ASSIGNED"; await rideDoc.save().
AssignSave(c) ==
  /\ calls[c].op = "requestRide" /\ calls[c].pc = "save"
  /\ rides' = [rides EXCEPT ![calls[c].ride].status = "ASSIGNED"]
  /\ Goto(c, "arm")
  /\ out' = {}
  /\ UNCHANGED <<now, pullers, ledger, conns, pullerSockets, activeRideRequests,
                 rideAcceptanceTimeouts, timers>>

\* activeRideRequests.set(...), setTimeout(..., 60000), rideAcceptanceTimeouts.set(...),
\* and the response.
AssignArm(c) ==
  /\ calls[c].op = "requestRide" /\ calls[c].pc = "arm"
  /\ activeRideRequests' = [activeRideRequests EXCEPT ![calls[c].ride] =
        [present |-> TRUE, docStatus |-> "ASSIGNED",
         pullersNotified |-> SeqToSet(calls[c].todo)]]
  /\ timers' = timers \cup {calls[c].ride}
  /\ rideAcceptanceTimeouts' = rideAcceptanceTimeouts \cup {calls[c].ride}
  /\ Finish(c, 200)
  /\ out' = {}
  /\ UNCHANGED <<now, rides, pullers, ledger, conns, pullerSockets>>

\* The 60-second timeout callback of assignRideToPuller: the check and
\* request.rideDoc.status = "REJECTED".
TimeoutFire(k, r) ==
  /\ r \in timers
  /\ timers' = timers \ {r}
  /\ IF activeRideRequests[r].present /\ activeRideRequests[r].docStatus = "ASSIGNED"
       THEN /\ activeRideRequests' = [activeRideRequests EXCEPT ![r].docStatus = "REJECTED"]
            /\ Begin(k, [IdleCall EXCEPT !.op = "timeout", !.pc = "save", !.ride = r,
                           !.todo = SetToSeq(activeRideRequests[r].pullersNotified)])
       ELSE /\ Quiet(k)
            /\ UNCHANGED activeRideRequests
  /\ out' = {}
  /\ UNCHANGED <<now, rides, pullers, ledger, conns, pullerSockets, rideAcceptanceTimeouts>>

\* await request.rideDoc.save().
TimeoutSave(c) ==
  /\ calls[c].op = "timeout" /\ calls[c].pc = "save"
  /\ rides' = [rides EXCEPT ![calls[c].ride].status = "REJECTED"]
  /\ Goto(c, "drop")
  /\ out' = {}
  /\ UNCHANGED <<now, pullers, ledger, conns, pullerSockets, activeRideRequests,
                 rideAcceptanceTimeouts, timers>>

\* activeRideRequests.delete(rideId); rideAcceptanceTimeouts.delete(rideId).
TimeoutDrop(c) ==
  /\ calls[c].op = "timeout" /\ calls[c].pc = "drop"
  /\ activeRideRequests' = [activeRideRequests EXCEPT ![calls[c].ride] = NoRequest]
  /\ rideAcceptanceTimeouts' = rideAcceptanceTimeouts \ {calls[c].ride}
  /\ Finish(c, 200)
  /\ out' = {}
  /\ UNCHANGED <<now, rides, pullers, ledger, conns, pullerSockets, timers>>

\* POST /acceptRide: Ride.findOne and the conflict check.
AcceptStart(k, r, p) ==
  /\ LET call == [IdleCall EXCEPT !.op = "acceptRide", !.ride = r, !.puller = p,
                                  !.snapStatus = rides[r].status,
                                  !.snapPuller = rides[r].pullerId,
                                  !.snapAt = rides[r].acceptedAt]
     IN IF rides[r].status = "NONE"
          THEN Begin(k, [call EXCEPT !.pc = "done", !.res = 404])
          ELSE IF rides[r].status = "ACCEPTED" /\ rides[r].pullerId # p
                 THEN Begin(k, [call EXCEPT !.pc = "done", !.res = 409])
                 ELSE Begin(k, [call EXCEPT !.pc = "mem"])
  /\ out' = {}
  /\ UNCHANGED <<now, rides, pullers, ledger, conns, pullerSockets, activeRideRequests,
                 rideAcceptanceTimeouts, timers>>

\* The first-accept-wins block: clearTimeout, REQUEST_FILLED to the other
\* notified pullers, activeRideRequests.delete; then ride.acceptedAt = new Date().
FilledMsgs(r, p) ==
  {Msg(pullerSockets[q], "REQUEST_FILLED", r) :
     q \in {x \in activeRideRequests[r].pullersNotified : x # p /\ pullerSockets[x] # None}}

AcceptMem(c) ==
  /\ calls[c].op = "acceptRide" /\ calls[c].pc = "mem"
  /\ LET r == calls[c].ride
     IN IF activeRideRequests[r].present /\ activeRideRequests[r].docStatus = "ASSIGNED"
          THEN /\ timers' = timers \ {r}
               /\ rideAcceptanceTimeouts' = rideAcceptanceTimeouts \ {r}
               /\ out' = FilledMsgs(r, calls[c].puller)
               /\ activeRideRequests' = [activeRideRequests EXCEPT ![r] = NoRequest]
          ELSE /\ out' = {}
               /\ UNCHANGED <<timers, rideAcceptanceTimeouts, activeRideRequests>>
  /\ calls' = [calls EXCEPT ![c].pc = "save", ![c].t = now]
  /\ UNCHANGED <<now, rides, pullers, ledger, conns, pullerSockets>>

\* await ride.save() with status, pullerId and acceptedAt set.
AcceptSave(c) ==
  /\ calls[c].op = "acceptRide" /\ calls[c].pc = "save"
  /\ rides' = [rides EXCEPT
        ![calls[c].ride].status = Saved(calls[c].snapStatus, "ACCEPTED", @),
        ![calls[c].ride].pullerId = Saved(calls[c].snapPuller, calls[c].puller, @),
        ![calls[c].ride].acceptedAt = Saved(calls[c].snapAt, calls[c].t, @)]
  /\ Goto(c, "puller")
  /\ out' = {}
  /\ UNCHANGED <<now, pullers, ledger, conns, pullerSockets, activeRideRequests,
                 rideAcceptanceTimeouts, timers>>

\* Puller.findOneAndUpdate({pullerId}, {status: "ON_TRIP"}) and the 200 response.
AcceptPuller(c) ==
  /\ calls[c].op = "acceptRide" /\ calls[c].pc = "puller"
  /\ pullers' = SetStatus(calls[c].puller, "ON_TRIP")
  /\ Finish(c, 200)
  /\ out' = {}
  /\ UNCHANGED <<now, rides, ledger, conns, pullerSockets, activeRideRequests,
                 rideAcceptanceTimeouts, timers>>

\* POST /updateLocation (the LocationLog entry is not modelled): 400 when the
\* pullerId or a coordinate is missing (None), else the puller's location.
UpdateLocation(k, p, loc) ==
  /\ LET call == [IdleCall EXCEPT !.op = "updateLocation", !.puller = p, !.n = loc,
                                  !.pc = "done"]
     IN IF p = None \/ loc = None
          THEN /\ Begin(k, [call EXCEPT !.res = 400])
               /\ UNCHANGED pullers
          ELSE /\ Begin(k, [call EXCEPT !.res = 200])
               /\ pullers' = [pullers EXCEPT ![p] =
                                IF pullers[p].status = "NONE" THEN pullers[p]
                                ELSE [pullers[p] EXCEPT !.loc = loc]]
  /\ out' = {}
  /\ UNCHANGED <<now, rides, ledger, conns, pullerSockets, activeRideRequests,
                 rideAcceptanceTimeouts, timers>>

\* POST /rejectRide: Ride.findOne and the choice of branch.
RejectStart(k, r, p) ==
  /\ LET call == [IdleCall EXCEPT !.op = "rejectRide", !.ride = r, !.puller = p,
                                  !.snapStatus = rides[r].status,
                                  !.snapPuller = rides[r].pullerId,
                                  !.n = rides[r].blockId]
     IN IF rides[r].status = "NONE"
          THEN Begin(k, [call EXCEPT !.pc = "done", !.res = 404])
          ELSE IF rides[r].status = "ACCEPTED" /\ rides[r].pullerId = p
                 THEN Begin(k, [call EXCEPT !.pc = "cancel"])
                 ELSE Begin(k, [call EXCEPT !.pc = "reject"])
  /\ out' = {}
  /\ UNCHANGED <<now, rides, pullers, ledger, conns, pullerSockets, activeRideRequests,
                 rideAcceptanceTimeouts, timers>>

\* The accepted puller cancels: ride.status = "CANCELLED"; await ride.save().
RejectCancelSave(c) ==
  /\ calls[c].op = "rejectRide" /\ calls[c].pc = "cancel"
  /\ rides' = [rides EXCEPT ![calls[c].ride].status =
                                Saved(calls[c].snapStatus, "CANCELLED", @)]
  /\ Goto(c, "find")
  /\ out' = {}
  /\ UNCHANGED <<now, pullers, ledger, conns, pullerSockets, activeRideRequests,
                 rideAcceptanceTimeouts, timers>>

\* await getPullersByProximity(...) of the re-alert.
RejectFind(c) ==
  /\ calls[c].op = "rejectRide" /\ calls[c].pc = "find"
  /\ calls' = [calls EXCEPT ![c].pc = "realert", ![c].todo = getPullersByProximity(calls[c].n)]
  /\ out' = {}
  /\ UNCHANGED <<now, rides, pullers, ledger, conns, pullerSockets, activeRideRequests,
                 rideAcceptanceTimeouts, timers>>

\* CANCEL_RIDE to the socket of ride.pullerId, when the ride has one.
CancelMsgs(r, holder) ==
  IF holder # None /\ pullerSockets[holder] # None
    THEN {Msg(pullerSockets[holder], "CANCEL_RIDE", r)}
    ELSE {}

\* The re-alert: ASSIGN_RIDE to the online AVAILABLE pullers other than the
\* canceller; then the CANCEL_RIDE and the response.
RejectRealert(c) ==
  /\ calls[c].op = "rejectRide" /\ calls[c].pc = "realert"
  /\ LET availablePullers ==
           SelectSeq(calls[c].todo,
                     LAMBDA q : pullerSockets[q] # None /\ q # calls[c].puller)
     IN out' = AssignMsgs(availablePullers, calls[c].ride)
                 \cup CancelMsgs(calls[c].ride, calls[c].snapPuller)
  /\ Finish(c, 200)
  /\ UNCHANGED <<now, rides, pullers, ledger, conns, pullerSockets, activeRideRequests,
                 rideAcceptanceTimeouts, timers>>

\* Any other reject: ride.status = "REJECTED"; await ride.save().
RejectSave(c) ==
  /\ calls[c].op = "rejectRide" /\ calls[c].pc = "reject"
  /\ rides' = [rides EXCEPT ![calls[c].ride].status =
                                Saved(calls[c].snapStatus, "REJECTED", @)]
  /\ Goto(c, "notify")
  /\ out' = {}
  /\ UNCHANGED <<now, pullers, ledger, conns, pullerSockets, activeRideRequests,
                 rideAcceptanceTimeouts, timers>>

RejectNotify(c) ==
  /\ calls[c].op = "rejectRide" /\ calls[c].pc = "notify"
  /\ out' = CancelMsgs(calls[c].ride, calls[c].snapPuller)
  /\ Finish(c, 200)
  /\ UNCHANGED <<now, rides, pullers, ledger, conns, pullerSockets, activeRideRequests,
                 rideAcceptanceTimeouts, timers>>

\* A /confirmPickup that does not compare the ride's puller with the caller.
ConfirmPickupStartAnyPuller(k, r, p) ==
  /\ LET call == [IdleCall EXCEPT !.op = "confirmPickup", !.ride = r, !.puller = p,
                                  !.snapStatus = rides[r].status,
                                  !.snapPuller = rides[r].pullerId]
     IN IF rides[r].status = "NONE"
          THEN Begin(k, [call EXCEPT !.pc = "done", !.res = 404])
          ELSE Begin(k, [call EXCEPT !.pc = "save"])
  /\ out' = {}
  /\ UNCHANGED <<now, rides, pullers, ledger, conns, pullerSockets, activeRideRequests,
                 rideAcceptanceTimeouts, timers>>

\* POST /confirmPickup: Ride.findOne, 404, 403, else ride.status = "PICKED_UP".
ConfirmPickupStart(k, r, p) ==
  /\ LET call == [IdleCall EXCEPT !.op = "confirmPickup", !.ride = r, !.puller = p,
                                  !.snapStatus = rides[r].status,
                                  !.snapPuller = rides[r].pullerId]
     IN IF rides[r].status = "NONE"
          THEN Begin(k, [call EXCEPT !.pc = "done", !.res = 404])
          ELSE IF rides[r].pullerId # p
                 THEN Begin(k, [call EXCEPT !.pc = "done", !.res = 403])
                 ELSE Begin(k, [call EXCEPT !.pc = "save"])
  /\ out' = {}
  /\ UNCHANGED <<now, rides, pullers, ledger, conns, pullerSockets, activeRideRequests,
                 rideAcceptanceTimeouts, timers>>

ConfirmPickupSave(c) ==
  /\ calls[c].op = "confirmPickup" /\ calls[c].pc = "save"
  /\ rides' = [rides EXCEPT ![calls[c].ride].status =
                                Saved(calls[c].snapStatus, "PICKED_UP", @)]
  /\ Finish(c, 200)
  /\ out' = {}
  /\ UNCHANGED <<now, pullers, ledger, conns, pullerSockets, activeRideRequests,
                 rideAcceptanceTimeouts, timers>>

\* ------------------------------------------------------------------ rewards
\* calculatePoints: max(0, BASE_POINTS - floor(distance / 10)).
calculatePoints(distanceFromBlock) ==
  LET finalPoints == BASE_POINTS - (distanceFromBlock \div 10)
  IN IF finalPoints > 0 THEN finalPoints ELSE 0

\* A tiering that pays the flat amounts the comments of /completeRide name
\* (5 points for a drop 51-100 m away) in place of calculatePoints.
PointsForFlatTier(d) == IF d <= 50 THEN calculatePoints(d)
                        ELSE IF d <= 100 THEN 5 ELSE 0

\* The tiering of /completeRide.
PointsFor(d) == IF d <= 50 THEN calculatePoints(d)
                ELSE IF d <= 100 THEN calculatePoints(d) ELSE 0

VerificationFor(d) == IF d <= 100 THEN "REWARDED" ELSE "PENDING_ADMIN_REVIEW"

\* Ledger entries the in-flight handlers have still to append.
Appends(c) ==
  IF ~InFlight(c) THEN 0
  ELSE IF calls[c].op = "completeRide" /\ calls[c].pc \in {"save", "inc", "ledger"}
            /\ PointsFor(calls[c].n) > 0 THEN 1
  ELSE IF calls[c].op = "redeemPoints" THEN 1
  ELSE IF calls[c].op = "adminPullerPoints" THEN 1
  ELSE IF calls[c].op = "adminRidePoints" /\ calls[c].puller # None /\ calls[c].delta # 0
    THEN 1
  ELSE IF calls[c].op = "expireOldPoints" THEN Len(calls[c].todo)
  ELSE 0

RECURSIVE SumAppends(_)
SumAppends(S) == IF S = {} THEN 0
                 ELSE LET c == CHOOSE x \in S : TRUE IN Appends(c) + SumAppends(S \ {c})

LedgerRoom(n) == Len(ledger) + SumAppends(Slots) + n <= MaxLedger

\* POST /completeRide: Ride.findOne, the destination and drop coordinates,
\* the distance and the points.  d is the distance between the drop point and
\* the destination, NoDrop when the request carries no drop coordinates and
\* ZeroDrop when one of those it carries is 0; dest tells whether the
\* destination block's coordinates are known.
CompleteStart(k, r, p, d, dest) ==
  /\ d \notin {NoDrop, ZeroDrop} /\ dest => LedgerRoom(IF PointsFor(d) > 0 THEN 1 ELSE 0)
  /\ LET call == [IdleCall EXCEPT !.op = "completeRide", !.ride = r, !.puller = p,
                                  !.snapStatus = rides[r].status,
                                  !.snapPuller = rides[r].pullerId, !.n = d,
                                  !.flag = dest]
     IN IF rides[r].status = "NONE"
          THEN Begin(k, [call EXCEPT !.pc = "done", !.res = 404])
          ELSE IF ~dest \/ d \in {NoDrop, ZeroDrop}
                 THEN Begin(k, [call EXCEPT !.pc = "manual"])
                 ELSE Begin(k, [call EXCEPT !.pc = "save"])
  /\ out' = {}
  /\ UNCHANGED <<now, rides, pullers, ledger, conns, pullerSockets, activeRideRequests,
                 rideAcceptanceTimeouts, timers>>

\* GPS unavailable: COMPLETED, rewardPoints = null, PENDING_MANUAL_REVIEW.
CompleteManual(c) ==
  /\ calls[c].op = "completeRide" /\ calls[c].pc = "manual"
  /\ rides' = [rides EXCEPT
        ![calls[c].ride].status = Saved(calls[c].snapStatus, "COMPLETED", @),
        ![calls[c].ride].completedAt = now,
        ![calls[c].ride].rewardPoints = NoPoints,
        ![calls[c].ride].verif = "PENDING_MANUAL_REVIEW"]
  /\ Finish(c, 200)
  /\ out' = {}
  /\ UNCHANGED <<now, pullers, ledger, conns, pullerSockets, activeRideRequests,
                 rideAcceptanceTimeouts, timers>>

\* /completeRide without its `if (points > 0)`: the award branch is taken
\* whatever the points.
CompleteSaveAwardAlways(c) ==
  /\ calls[c].op = "completeRide" /\ calls[c].pc = "save"
  /\ rides' = [rides EXCEPT
        ![calls[c].ride].status = Saved(calls[c].snapStatus, "COMPLETED", @),
        ![calls[c].ride].completedAt = now,
        ![calls[c].ride].rewardPoints = PointsFor(calls[c].n),
        ![calls[c].ride].dropDistance = calls[c].n * DM_PER_M,
        ![calls[c].ride].verif = VerificationFor(calls[c].n)]
  /\ Goto(c, "inc")
  /\ out' = {}
  /\ UNCHANGED <<now, pullers, ledger, conns, pullerSockets, activeRideRequests,
                 rideAcceptanceTimeouts, timers>>

CompleteSave(c) ==
  /\ calls[c].op = "completeRide" /\ calls[c].pc = "save"
  /\ rides' = [rides EXCEPT
        ![calls[c].ride].status = Saved(calls[c].snapStatus, "COMPLETED", @),
        ![calls[c].ride].completedAt = now,
        ![calls[c].ride].rewardPoints = PointsFor(calls[c].n),
        ![calls[c].ride].dropDistance = calls[c].n * DM_PER_M,
        ![calls[c].ride].verif = VerificationFor(calls[c].n)]
  /\ Goto(c, IF PointsFor(calls[c].n) > 0 THEN "inc" ELSE "avail")
  /\ out' = {}
  /\ UNCHANGED <<now, pullers, ledger, conns, pullerSockets, activeRideRequests,
                 rideAcceptanceTimeouts, timers>>

\* Puller.findOneAndUpdate({pullerId}, {$inc: {totalPoints: delta}}): no upsert.
IncPoints(p, delta) ==
  IF p \notin Pullers THEN pullers
  ELSE [pullers EXCEPT ![p] = IF pullers[p].status = "NONE" THEN pullers[p]
                              ELSE [pullers[p] EXCEPT !.totalPoints = @ + delta]]

\* expiresAt = today + 180 days; $inc totalPoints and status AVAILABLE.
CompleteInc(c) ==
  /\ calls[c].op = "completeRide" /\ calls[c].pc = "inc"
  /\ pullers' = [IncPoints(calls[c].puller, PointsFor(calls[c].n)) EXCEPT
                   ![calls[c].puller].status =
                      IF @ = "NONE" THEN @ ELSE "AVAILABLE"]
  /\ calls' = [calls EXCEPT ![c].pc = "ledger", ![c].t = now + ExpiryMinutes]
  /\ out' = {}
  /\ UNCHANGED <<now, rides, ledger, conns, pullerSockets, activeRideRequests,
                 rideAcceptanceTimeouts, timers>>

Entry(p, r, delta, expiresAt, reason) ==
  [pullerId |-> p, rideId |-> r, delta |-> delta, expiresAt |-> expiresAt,
   reason |-> reason]

\* PointsHistory.create({pullerId, rideId, delta: points, expiresAt}).
CompleteLedger(c) ==
  /\ calls[c].op = "completeRide" /\ calls[c].pc = "ledger"
  /\ ledger' = Append(ledger, Entry(calls[c].puller, calls[c].ride,
                                    PointsFor(calls[c].n), calls[c].t, "drop"))
  /\ Finish(c, 200)
  /\ out' = {}
  /\ UNCHANGED <<now, rides, pullers, conns, pullerSockets, activeRideRequests,
                 rideAcceptanceTimeouts, timers>>

\* No points: Puller.findOneAndUpdate({pullerId}, {status: "AVAILABLE"}).
CompleteAvail(c) ==
  /\ calls[c].op = "completeRide" /\ calls[c].pc = "avail"
  /\ pullers' = SetStatus(calls[c].puller, "AVAILABLE")
  /\ Finish(c, 200)
  /\ out' = {}
  /\ UNCHANGED <<now, rides, ledger, conns, pullerSockets, activeRideRequests,
                 rideAcceptanceTimeouts, timers>>

\* POST /redeemPoints: Puller.findOne, 404, the balance check.
RedeemAmounts == {5}

RedeemStart(k, p, points) ==
  /\ LedgerRoom(1)
  /\ LET call == [IdleCall EXCEPT !.op = "redeemPoints", !.puller = p, !.n = points]
     IN IF pullers[p].status = "NONE"
          THEN Begin(k, [call EXCEPT !.pc = "done", !.res = 404])
          ELSE IF pullers[p].totalPoints < points
                 THEN Begin(k, [call EXCEPT !.pc = "done", !.res = 400])
                 ELSE Begin(k, [call EXCEPT !.pc = "inc"])
  /\ out' = {}
  /\ UNCHANGED <<now, rides, pullers, ledger, conns, pullerSockets, activeRideRequests,
                 rideAcceptanceTimeouts, timers>>

RedeemInc(c) ==
  /\ calls[c].op = "redeemPoints" /\ calls[c].pc = "inc"
  /\ pullers' = IncPoints(calls[c].puller, 0 - calls[c].n)
  /\ Goto(c, "ledger")
  /\ out' = {}
  /\ UNCHANGED <<now, rides, ledger, conns, pullerSockets, activeRideRequests,
                 rideAcceptanceTimeouts, timers>>

RedeemLedger(c) ==
  /\ calls[c].op = "redeemPoints" /\ calls[c].pc = "ledger"
  /\ ledger' = Append(ledger, Entry(calls[c].puller, None, 0 - calls[c].n, NoTime, "redeem"))
  /\ Finish(c, 200)
  /\ out' = {}
  /\ UNCHANGED <<now, rides, pullers, conns, pullerSockets, activeRideRequests,
                 rideAcceptanceTimeouts, timers>>

\* expireOldPoints (setInterval, daily): the query.  expirationDate is today
\* minus 180 days; the entries found are those with expiresAt before it and a
\* positive delta.
ExpiredEntries ==
  LET expirationDate == now - ExpiryMinutes
  IN SelectSeq([i \in 1..Len(ledger) |-> i],
               LAMBDA i : /\ ledger[i].expiresAt # NoTime
                          /\ ledger[i].expiresAt < expirationDate
                          /\ ledger[i].delta > 0)

ExpireStart(k) ==
  /\ LedgerRoom(Len(ExpiredEntries))
  /\ LET call == [IdleCall EXCEPT !.op = "expireOldPoints", !.todo = ExpiredEntries]
     IN IF Len(ExpiredEntries) = 0
          THEN Begin(k, [call EXCEPT !.pc = "done", !.res = 200])
          ELSE Begin(k, [call EXCEPT !.pc = "inc"])
  /\ out' = {}
  /\ UNCHANGED <<now, rides, pullers, ledger, conns, pullerSockets, activeRideRequests,
                 rideAcceptanceTimeouts, timers>>

\* The loop body: $inc totalPoints by -delta ...
ExpireInc(c) ==
  /\ calls[c].op = "expireOldPoints" /\ calls[c].pc = "inc"
  /\ LET pointEntry == ledger[Head(calls[c].todo)]
     IN pullers' = IncPoints(pointEntry.pullerId, 0 - pointEntry.delta)
  /\ Goto(c, "ledger")
  /\ out' = {}
  /\ UNCHANGED <<now, rides, ledger, conns, pullerSockets, activeRideRequests,
                 rideAcceptanceTimeouts, timers>>

\* A sweep that marks the expired entry itself in place of appending one.
ExpireLedgerInPlace(c) ==
  /\ calls[c].op = "expireOldPoints" /\ calls[c].pc = "ledger"
  /\ ledger' = [ledger EXCEPT ![Head(calls[c].todo)].delta = 0,
                              ![Head(calls[c].todo)].reason = "expired"]
  /\ calls' = [calls EXCEPT ![c].todo = Tail(@),
                            ![c].pc = IF Len(calls[c].todo) = 1 THEN "done" ELSE "inc",
                            ![c].res = IF Len(calls[c].todo) = 1 THEN 200 ELSE 0]
  /\ out' = {}
  /\ UNCHANGED <<now, rides, pullers, conns, pullerSockets, activeRideRequests,
                 rideAcceptanceTimeouts, timers>>

\* ... and PointsHistory.create of the compensating entry.
ExpireLedger(c) ==
  /\ calls[c].op = "expireOldPoints" /\ calls[c].pc = "ledger"
  /\ LET pointEntry == ledger[Head(calls[c].todo)]
     IN ledger' = Append(ledger, Entry(pointEntry.pullerId, None, 0 - pointEntry.delta,
                                       NoTime, "expired"))
  /\ calls' = [calls EXCEPT ![c].todo = Tail(@),
                            ![c].pc = IF Len(calls[c].todo) = 1 THEN "done" ELSE "inc",
                            ![c].res = IF Len(calls[c].todo) = 1 THEN 200 ELSE 0]
  /\ out' = {}
  /\ UNCHANGED <<now, rides, pullers, conns, pullerSockets, activeRideRequests,
                 rideAcceptanceTimeouts, timers>>

\* POST /admin/rides/:rideId/points: Ride.findOne, 404, else the difference
\* between the points asked for and those of the ride (null counts as 0).
AdminPoints == {0, 5}

AdminRidePointsStart(k, r, points) ==
  /\ LedgerRoom(1)
  /\ LET oldPoints == IF rides[r].rewardPoints = NoPoints THEN 0 ELSE rides[r].rewardPoints
         call == [IdleCall EXCEPT !.op = "adminRidePoints", !.ride = r, !.n = points,
                                  !.puller = rides[r].pullerId,
                                  !.flag = (rides[r].rewardPoints = NoPoints),
                                  !.delta = points - oldPoints]
     IN IF rides[r].status = "NONE"
          THEN Begin(k, [call EXCEPT !.pc = "done", !.res = 404])
          ELSE Begin(k, [call EXCEPT !.pc = "save"])
  /\ out' = {}
  /\ UNCHANGED <<now, rides, pullers, ledger, conns, pullerSockets, activeRideRequests,
                 rideAcceptanceTimeouts, timers>>

\* ride.rewardPoints = points, verificationStatus REWARDED; await ride.save().
AdminRidePointsSave(c) ==
  /\ calls[c].op = "adminRidePoints" /\ calls[c].pc = "save"
  /\ rides' = [rides EXCEPT ![calls[c].ride].rewardPoints =
                               IF calls[c].delta = 0 /\ ~calls[c].flag THEN @ ELSE calls[c].n,
                            ![calls[c].ride].verif = "REWARDED"]
  /\ IF calls[c].puller # None /\ calls[c].delta # 0
       THEN Goto(c, "inc") ELSE Finish(c, 200)
  /\ out' = {}
  /\ UNCHANGED <<now, pullers, ledger, conns, pullerSockets, activeRideRequests,
                 rideAcceptanceTimeouts, timers>>

\* Puller.findOneAndUpdate({pullerId: ride.pullerId}, {$inc: {totalPoints: delta}}).
AdminRidePointsInc(c) ==
  /\ calls[c].op = "adminRidePoints" /\ calls[c].pc = "inc"
  /\ pullers' = IncPoints(calls[c].puller, calls[c].delta)
  /\ Goto(c, "ledger")
  /\ out' = {}
  /\ UNCHANGED <<now, rides, ledger, conns, pullerSockets, activeRideRequests,
                 rideAcceptanceTimeouts, timers>>

\* PointsHistory.create({pullerId: ride.pullerId, rideId, delta, reason}).
AdminRidePointsLedger(c) ==
  /\ calls[c].op = "adminRidePoints" /\ calls[c].pc = "ledger"
  /\ ledger' = Append(ledger, Entry(calls[c].puller, calls[c].ride, calls[c].delta,
                                    NoTime, "adjust"))
  /\ Finish(c, 200)
  /\ out' = {}
  /\ UNCHANGED <<now, rides, pullers, conns, pullerSockets, activeRideRequests,
                 rideAcceptanceTimeouts, timers>>

\* POST /admin/puller/:pullerId/points: a numeric delta (the 400 of any other
\* is not modelled).
AdminDeltas == {-5}

AdminPullerPointsStart(k, p, delta) ==
  /\ LedgerRoom(1)
  /\ Begin(k, [IdleCall EXCEPT !.op = "adminPullerPoints", !.pc = "inc", !.puller = p,
                               !.delta = delta])
  /\ out' = {}
  /\ UNCHANGED <<now, rides, pullers, ledger, conns, pullerSockets, activeRideRequests,
                 rideAcceptanceTimeouts, timers>>

\* Puller.findOneAndUpdate({pullerId}, {$inc: {totalPoints: delta}}, {upsert: true}):
\* a puller that has no document gets one, with the schema's defaults.
AdminPullerPointsInc(c) ==
  /\ calls[c].op = "adminPullerPoints" /\ calls[c].pc = "inc"
  /\ pullers' = [pullers EXCEPT ![calls[c].puller] =
                    IF @.status = "NONE"
                      THEN [NoPuller EXCEPT !.status = "AVAILABLE",
                                            !.totalPoints = calls[c].delta]
                      ELSE [@ EXCEPT !.totalPoints = @ + calls[c].delta]]
  /\ Goto(c, "ledger")
  /\ out' = {}
  /\ UNCHANGED <<now, rides, ledger, conns, pullerSockets, activeRideRequests,
                 rideAcceptanceTimeouts, timers>>

\* PointsHistory.create({pullerId, delta, reason}).
AdminPullerPointsLedger(c) ==
  /\ calls[c].op = "adminPullerPoints" /\ calls[c].pc = "ledger"
  /\ ledger' = Append(ledger, Entry(calls[c].puller, None, calls[c].delta, NoTime, "adjust"))
  /\ Finish(c, 200)
  /\ out' = {}
  /\ UNCHANGED <<now, rides, pullers, conns, pullerSockets, activeRideRequests,
                 rideAcceptanceTimeouts, timers>>

\* POST /admin/puller/:pullerId/status (upsert).
AdminStatus(k, p, status) ==
  /\ Quiet(k)
  /\ pullers' = Upsert(p, status)
  /\ out' = {}
  /\ UNCHANGED <<now, rides, ledger, conns, pullerSockets, activeRideRequests,
                 rideAcceptanceTimeouts, timers>>

\* ----------------------------------------------------------- specifications
\* Puller p's device holds connection p.
Sessions == {<<w, p>> \in Conns \X Pullers : w = p}

RegisterStep(c) == RegisterDb(c) \/ CloseDb(c)

RequestStep(c) ==
  \/ RequestRideCreate(c) \/ AssignFind(c) \/ AssignSend(c) \/ AssignSave(c) \/ AssignArm(c)

TimeoutStep(c) == TimeoutSave(c) \/ TimeoutDrop(c)

AcceptStep(c) == AcceptMem(c) \/ AcceptSave(c) \/ AcceptPuller(c)

RejectStep(c) ==
  \/ RejectCancelSave(c) \/ RejectFind(c) \/ RejectRealert(c)
  \/ RejectSave(c) \/ RejectNotify(c)

\* The dispatcher with its handlers run one at a time, each to completion:
\* connections, ride requests, the acceptance timeout, accept, reject, pickup
\* and completions that award no points.
Next ==
  \/ \E c \in Slots : RegisterStep(c)
  \/ \E c \in Slots : RequestStep(c)
  \/ \E c \in Slots : TimeoutStep(c)
  \/ \E c \in Slots : AcceptStep(c)
  \/ \E c \in Slots : RejectStep(c)
  \/ \E c \in Slots : ConfirmPickupSave(c)
  \/ \E c \in Slots : CompleteManual(c) \/ CompleteSave(c) \/ CompleteAvail(c)
  \/ \E w \in Conns : Connect(1, w)
  \/ \E s \in Sessions : RegisterStart(1, s[1], s[2])
  \/ \E w \in Conns : CloseStart(1, w)
  \/ \E b \in Blocks : RequestRideStart(1, 1, b)
  \/ \E r \in RideIds : TimeoutFire(1, r)
  \/ \E r \in RideIds, p \in Pullers : AcceptStart(1, r, p)
  \/ \E r \in RideIds, p \in Pullers : RejectStart(1, r, p)
  \/ \E r \in RideIds, p \in Pullers : ConfirmPickupStart(1, r, p)
  \/ \E r \in RideIds, p \in Pullers, d \in {105, NoDrop} : CompleteStart(1, r, p, d, TRUE)
  \/ TickMinutes

Spec == Init /\ [][Next]_vars

\* Requests served concurrently: up to MaxInFlight handlers and timeout
\* callbacks interleave at their awaits.
NextRace ==
  \/ \E c \in Slots : RegisterDb(c)
  \/ \E c \in Slots : RequestStep(c)
  \/ \E c \in Slots : TimeoutStep(c)
  \/ \E c \in Slots : AcceptStep(c)
  \/ \E w \in Conns : Connect(MaxInFlight, w)
  \/ \E s \in Sessions : RegisterStart(MaxInFlight, s[1], s[2])
  \/ \E b \in Blocks : RequestRideStart(MaxInFlight, 1, b)
  \/ \E r \in RideIds : TimeoutFire(MaxInFlight, r)
  \/ \E r \in RideIds, p \in Pullers : AcceptStart(MaxInFlight, r, p)

SpecRace == Init /\ [][NextRace]_vars

\* The points ledger: completions by registered pullers that award points,
\* redemptions and the expiration sweep, over a clock that advances by the
\* expiry period.
Registered == {p \in Pullers : pullers[p].status # "NONE"}

NextLedger ==
  \/ \E c \in Slots : RegisterDb(c)
  \/ \E c \in Slots : RequestStep(c)
  \/ \E c \in Slots : CompleteSave(c) \/ CompleteInc(c) \/ CompleteLedger(c)
  \/ \E c \in Slots : RedeemInc(c) \/ RedeemLedger(c)
  \/ \E c \in Slots : ExpireInc(c) \/ ExpireLedger(c)
  \/ \E w \in Conns : Connect(1, w)
  \/ \E s \in Sessions : RegisterStart(1, s[1], s[2])
  \/ \E b \in Blocks : RequestRideStart(1, 1, b)
  \/ \E r \in RideIds, p \in Registered, d \in {0} : CompleteStart(1, r, p, d, TRUE)
  \/ \E p \in Pullers, n \in RedeemAmounts : RedeemStart(1, p, n)
  \/ ExpireStart(1)
  \/ TickDays

SpecLedger == Init /\ [][NextLedger]_vars

\* The reward tiers: one ride, completed once by a registered puller at any
\* whole-metre drop distance.
Uncompleted == {r \in RideIds : rides[r].status \notin {"NONE", "COMPLETED"}}

NextTiers ==
  \/ \E c \in Slots : RegisterDb(c)
  \/ \E c \in Slots : RequestStep(c)
  \/ \E c \in Slots : CompleteSave(c) \/ CompleteInc(c) \/ CompleteLedger(c) \/ CompleteAvail(c)
  \/ \E w \in Conns : Connect(1, w)
  \/ \E s \in Sessions : RegisterStart(1, s[1], s[2])
  \/ \E b \in Blocks : RequestRideStart(1, 1, b)
  \/ \E r \in Uncompleted, p \in Registered, d \in TierDistances :
        CompleteStart(1, r, p, d, TRUE)

SpecTiers == Init /\ [][NextTiers]_vars

\* Repeated requests from the blocks: rides are requested, accepted and
\* picked up, and requested again within and after the five-minute window.
NextDedup ==
  \/ \E c \in Slots : RegisterDb(c)
  \/ \E c \in Slots : RequestStep(c)
  \/ \E c \in Slots : AcceptStep(c)
  \/ \E c \in Slots : ConfirmPickupSave(c)
  \/ \E w \in Conns : Connect(1, w)
  \/ \E s \in Sessions : RegisterStart(1, s[1], s[2])
  \/ \E b \in Blocks : RequestRideStart(1, MaxRides, b)
  \/ \E r \in RideIds, p \in Registered : AcceptStart(1, r, p)
  \/ \E r \in RideIds, p \in Registered : ConfirmPickupStart(1, r, p)
  \/ TickMinutes

SpecDedup == Init /\ [][NextDedup]_vars

\* ------------------------------------------------------------- fraud check
\* The window and the threshold of /admin/detectFraud.
FRAUD_WINDOW_DAYS == 7
FRAUD_THRESHOLD == 5
FraudWindow == FRAUD_WINDOW_DAYS * MINUTES_PER_DAY

\* The rides the check reads carry the drop distance, in decimetres, and the
\* completion time that /completeRide records.
MaxHistory == 6
History == 1..MaxHistory

\* A completed ride of the history: its drop distance (NoDrop: completed
\* without coordinates, no metadata.dropDistance) and its completion time.
FraudKinds == {<<0, DEDUP_WINDOW_MIN>>, <<5, DEDUP_WINDOW_MIN>>, <<10, DEDUP_WINDOW_MIN>>,
               <<5, 0>>, <<NoDrop, DEDUP_WINDOW_MIN>>}

Recorded(p, kind) ==
  [status |-> "COMPLETED", blockId |-> 1, pullerId |-> p,
   createdAt |-> kind[2], acceptedAt |-> kind[2],
   rewardPoints |-> IF kind[1] = NoDrop THEN NoPoints ELSE PointsFor(kind[1] \div DM_PER_M),
   verif |-> IF kind[1] = NoDrop THEN "PENDING_MANUAL_REVIEW" ELSE "REWARDED",
   dropDistance |-> kind[1], completedAt |-> kind[2]]

\* The ledger and the totals that the completions of a history left.
HistoryLedger(h) ==
  LET all == [r \in History |-> Entry(h[r].pullerId, r, h[r].rewardPoints,
                                       h[r].completedAt + ExpiryMinutes, "drop")]
      Paid(e) == e.delta > 0
  IN SelectSeq(all, Paid)

RECURSIVE SumDeltas(_)
SumDeltas(es) == IF es = <<>> THEN 0 ELSE Head(es).delta + SumDeltas(Tail(es))

HistoryPoints(h, p) ==
  LET Mine(e) == e.pullerId = p IN SumDeltas(SelectSeq(HistoryLedger(h), Mine))

\* The state in which the check is run: puller 1 has completed MaxHistory
\* rides, the clock stands seven days and five minutes after the oldest.
InitFraud ==
  /\ now = FraudWindow + DEDUP_WINDOW_MIN
  /\ rides \in [History -> {Recorded(1, kind) : kind \in FraudKinds}]
  /\ pullers = [p \in Pullers |-> [NoPuller EXCEPT !.status = "AVAILABLE",
                                                   !.totalPoints = HistoryPoints(rides, p)]]
  /\ ledger = HistoryLedger(rides)
  /\ conns = [c \in Conns |-> [open |-> FALSE, pullerId |-> None]]
  /\ pullerSockets = [p \in Pullers |-> None]
  /\ activeRideRequests = [r \in History |-> NoRequest]
  /\ rideAcceptanceTimeouts = {}
  /\ timers = {}
  /\ calls = [c \in Slots |-> IdleCall]
  /\ out = {}

\* Ride.find({pullerId, status: "COMPLETED", completedAt: {$gte: 7 days ago}}).
recentRides(p) ==
  {r \in DOMAIN rides : /\ rides[r].pullerId = p /\ rides[r].status = "COMPLETED"
                        /\ rides[r].completedAt >= now - FraudWindow}

\* The filter: !ride.metadata?.dropDistance is true of a missing distance and
\* of the number 0.
suspiciousRides(p) ==
  {r \in recentRides(p) : /\ rides[r].dropDistance \notin {NoDrop, 0}
                          /\ rides[r].dropDistance < DM_PER_M}

\* POST /admin/detectFraud: the find, the filter and the threshold.
DetectFraudStart(k, p) ==
  /\ LET n == Cardinality(suspiciousRides(p))
         call == [IdleCall EXCEPT !.op = "detectFraud", !.puller = p, !.n = n]
     IN IF n > FRAUD_THRESHOLD
          THEN Begin(k, [call EXCEPT !.pc = "flag"])
          ELSE Begin(k, [call EXCEPT !.pc = "done", !.res = 200])
  /\ out' = {}
  /\ UNCHANGED <<now, rides, pullers, ledger, conns, pullerSockets, activeRideRequests,
                 rideAcceptanceTimeouts, timers>>

\* Puller.findOneAndUpdate({pullerId}, {status: "SUSPENDED", metadata});
\* res.json({flagged: true}).
DetectFraudFlag(c) ==
  /\ calls[c].op = "detectFraud" /\ calls[c].pc = "flag"
  /\ pullers' = SetStatus(calls[c].puller, "SUSPENDED")
  /\ calls' = [calls EXCEPT ![c].pc = "done", ![c].res = 200, ![c].flag = TRUE]
  /\ out' = {}
  /\ UNCHANGED <<now, rides, ledger, conns, pullerSockets, activeRideRequests,
                 rideAcceptanceTimeouts, timers>>

\* The fraud check over the histories of completed rides.
NextFraud ==
  \/ \E p \in Pullers : DetectFraudStart(1, p)
  \/ \E c \in Slots : DetectFraudFlag(c)

SpecFraud == InitFraud /\ [][NextFraud]_vars

\* Requests with a required field missing (None) among the well-formed ones.
NextValidate ==
  \/ \E c \in Slots : RegisterDb(c)
  \/ \E c \in Slots : RequestStep(c)
  \/ \E c \in Slots : AcceptStep(c)
  \/ \E c \in Slots : CompleteManual(c) \/ CompleteSave(c) \/ CompleteInc(c)
  \/ \E c \in Slots : CompleteLedger(c)
  \/ \E w \in Conns : Connect(1, w)
  \/ \E s \in Sessions : RegisterStart(1, s[1], s[2])
  \/ \E b \in Blocks \cup {None} : RequestRideStart(1, 1, b)
  \/ \E p \in Registered \cup {None}, loc \in {MaxLoc, None} : UpdateLocation(1, p, loc)
  \/ \E r \in RideIds, p \in Registered \cup {None} : AcceptStart(1, r, p)
  \/ \E r \in Uncompleted, p \in Registered \cup {None}, d \in {0, NoDrop} :
        CompleteStart(1, r, p, d, TRUE)

SpecValidate == Init /\ [][NextValidate]_vars

\* Pickup confirmations of one ride, by any puller.
NextPickup ==
  \/ \E c \in Slots : RegisterDb(c)
  \/ \E c \in Slots : RequestStep(c)
  \/ \E c \in Slots : AcceptStep(c)
  \/ \E c \in Slots : ConfirmPickupSave(c)
  \/ \E w \in Conns : Connect(1, w)
  \/ \E s \in Sessions : RegisterStart(1, s[1], s[2])
  \/ \E b \in Blocks : RequestRideStart(1, 1, b)
  \/ \E r \in RideIds, p \in Registered : AcceptStart(1, r, p)
  \/ \E r \in RideIds, p \in Pullers : ConfirmPickupStart(1, r, p)

SpecPickup == Init /\ [][NextPickup]_vars

\* Pullers that register on any connection, again and on another one, between
\* rides and closes.
NextRegister ==
  \/ \E c \in Slots : RegisterStep(c)
  \/ \E c \in Slots : RequestStep(c)
  \/ \E c \in Slots : AcceptStep(c)
  \/ \E w \in Conns : Connect(1, w)
  \/ \E w \in Conns, p \in Pullers : RegisterStart(1, w, p)
  \/ \E w \in Conns : CloseStart(1, w)
  \/ \E b \in Blocks : RequestRideStart(1, 1, b)
  \/ \E r \in RideIds, p \in Registered : AcceptStart(1, r, p)

SpecRegister == Init /\ [][NextRegister]_vars

\* Pullers that an admin suspends and reinstates between their registrations,
\* closes, acceptances and completions.
NextSuspend ==
  \/ \E c \in Slots : RegisterStep(c)
  \/ \E c \in Slots : RequestStep(c)
  \/ \E c \in Slots : AcceptStep(c)
  \/ \E c \in Slots : CompleteSave(c) \/ CompleteAvail(c)
  \/ \E w \in Conns : Connect(1, w)
  \/ \E s \in Sessions : RegisterStart(1, s[1], s[2])
  \/ \E w \in Conns : CloseStart(1, w)
  \/ \E b \in Blocks : RequestRideStart(1, 1, b)
  \/ \E r \in RideIds, p \in Registered : AcceptStart(1, r, p)
  \/ \E r \in Uncompleted, p \in Registered : CompleteStart(1, r, p, MaxDrop, TRUE)
  \/ \E p \in Registered, st \in {"AVAILABLE", "SUSPENDED"} : AdminStatus(1, p, st)

SpecSuspend == Init /\ [][NextSuspend]_vars

\* Every operation that reads or writes the ledger: awards, redemptions,
\* admin adjustments, the sweep and the fraud check, for one puller.
NextAppend ==
  \/ \E c \in Slots : RegisterDb(c)
  \/ \E c \in Slots : RequestStep(c)
  \/ \E c \in Slots : AcceptStep(c)
  \/ \E c \in Slots : CompleteSave(c) \/ CompleteInc(c) \/ CompleteLedger(c)
  \/ \E c \in Slots : RedeemInc(c) \/ RedeemLedger(c)
  \/ \E c \in Slots : AdminRidePointsSave(c) \/ AdminRidePointsInc(c)
  \/ \E c \in Slots : AdminRidePointsLedger(c)
  \/ \E c \in Slots : AdminPullerPointsInc(c) \/ AdminPullerPointsLedger(c)
  \/ \E c \in Slots : ExpireInc(c) \/ ExpireLedger(c)
  \/ Connect(1, 1)
  \/ RegisterStart(1, 1, 1)
  \/ \E b \in Blocks : RequestRideStart(1, 1, b)
  \/ \E r \in Uncompleted, p \in Registered : AcceptStart(1, r, p)
  \/ \E r \in Uncompleted, p \in Registered : CompleteStart(1, r, p, 0, TRUE)
  \/ \E p \in Registered, n \in RedeemAmounts : RedeemStart(1, p, n)
  \/ \E r \in RideIds, n \in AdminPoints : AdminRidePointsStart(1, r, n)
  \/ \E p \in Registered, d \in AdminDeltas : AdminPullerPointsStart(1, p, d)
  \/ \E p \in Registered : DetectFraudStart(1, p)
  \/ ExpireStart(1)
  \/ TickDays

SpecAppend == Init /\ [][NextAppend]_vars

\* Requests for rides that overlap.
NextRequestRace ==
  \/ \E c \in Slots : RegisterDb(c)
  \/ \E c \in Slots : RequestStep(c)
  \/ \E c \in Slots : RequestRideCreateClash(c)
  \/ \E w \in Conns : Connect(MaxInFlight, w)
  \/ \E s \in Sessions : RegisterStart(MaxInFlight, s[1], s[2])
  \/ \E b \in Blocks : RequestRideStart(MaxInFlight, MaxRides, b)
  \/ TickMinutes

SpecRequestRace == Init /\ [][NextRequestRace]_vars

\* Awards, redemptions and admin adjustments, for pullers that have registered
\* and pullers that have not yet.
NextTotals ==
  \/ \E c \in Slots : RegisterDb(c)
  \/ \E c \in Slots : RequestStep(c)
  \/ \E c \in Slots : AcceptStep(c)
  \/ \E c \in Slots : CompleteSave(c) \/ CompleteInc(c) \/ CompleteLedger(c)
  \/ \E c \in Slots : RedeemInc(c) \/ RedeemLedger(c)
  \/ \E c \in Slots : AdminRidePointsSave(c) \/ AdminRidePointsInc(c)
  \/ \E c \in Slots : AdminRidePointsLedger(c)
  \/ \E c \in Slots : AdminPullerPointsInc(c) \/ AdminPullerPointsLedger(c)
  \/ \E w \in Conns : Connect(1, w)
  \/ \E s \in Sessions : RegisterStart(1, s[1], s[2])
  \/ \E b \in Blocks : RequestRideStart(1, 1, b)
  \/ \E r \in Uncompleted, p \in Pullers : AcceptStart(1, r, p)
  \/ \E r \in Uncompleted, p \in Pullers : CompleteStart(1, r, p, 0, TRUE)
  \/ \E p \in Registered, n \in RedeemAmounts : RedeemStart(1, p, n)
  \/ \E r \in RideIds, n \in AdminPoints : AdminRidePointsStart(1, r, n)
  \/ \E p \in Pullers, d \in AdminDeltas : AdminPullerPointsStart(1, p, d)

SpecTotals == Init /\ [][NextTotals]_vars

\* Broadcasts in which a send may fail.
NextSend ==
  \/ \E c \in Slots : RegisterDb(c)
  \/ \E c \in Slots : RequestStep(c)
  \/ \E c \in Slots, i \in Pullers : AssignSendThrow(c, i)
  \/ \E w \in Conns : Connect(1, w)
  \/ \E s \in Sessions : RegisterStart(1, s[1], s[2])
  \/ \E p \in Pullers, loc \in Locs : UpdateLocation(1, p, loc)
  \/ \E b \in Blocks : RequestRideStart(1, MaxRides, b)
  \/ TickMinutes

SpecSend == Init /\ [][NextSend]_vars

\* The award: one ride, completed once by a registered puller at a drop
\* distance of each tier, at either time of the clock.
NextAward ==
  \/ \E c \in Slots : RegisterDb(c)
  \/ \E c \in Slots : RequestStep(c)
  \/ \E c \in Slots : CompleteSave(c) \/ CompleteInc(c) \/ CompleteLedger(c) \/ CompleteAvail(c)
  \/ \E w \in Conns : Connect(1, w)
  \/ \E s \in Sessions : RegisterStart(1, s[1], s[2])
  \/ \E b \in Blocks : RequestRideStart(1, 1, b)
  \/ \E r \in Uncompleted, p \in Registered, d \in DropDistances :
        CompleteStart(1, r, p, d, TRUE)
  \/ TickMinutes

SpecAward == Init /\ [][NextAward]_vars

\* Completions with and without coordinates: the drop coordinates missing,
\* zero or usable, the destination known or not.
NextManual ==
  \/ \E c \in Slots : RegisterDb(c)
  \/ \E c \in Slots : RequestStep(c)
  \/ \E c \in Slots : CompleteManual(c) \/ CompleteSave(c) \/ CompleteInc(c)
  \/ \E c \in Slots : CompleteLedger(c) \/ CompleteAvail(c)
  \/ \E w \in Conns : Connect(1, w)
  \/ \E s \in Sessions : RegisterStart(1, s[1], s[2])
  \/ \E b \in Blocks : RequestRideStart(1, 1, b)
  \/ \E r \in RideIds, p \in Registered, d \in DropDistances \cup {NoDrop, ZeroDrop},
        dest \in BOOLEAN : CompleteStart(1, r, p, d, dest)

SpecManual == Init /\ [][NextManual]_vars

\* The dispatcher left to run: a handler that has started runs to its end
\* and an armed timer fires; requests arrive as the clients choose.
LiveStep ==
  \/ \E c \in Slots : RegisterDb(c)
  \/ \E c \in Slots : RequestStep(c)
  \/ \E c \in Slots : TimeoutStep(c)
  \/ \E c \in Slots : AcceptStep(c)
  \/ \E r \in RideIds : TimeoutFire(1, r)

NextLive ==
  \/ LiveStep
  \/ \E w \in Conns : Connect(1, w)
  \/ \E s \in Sessions : RegisterStart(1, s[1], s[2])
  \/ \E p \in Pullers, loc \in Locs : UpdateLocation(1, p, loc)
  \/ \E b \in Blocks : RequestRideStart(1, 1, b)
  \/ \E r \in RideIds, p \in Pullers : AcceptStart(1, r, p)

SpecLive == Init /\ [][NextLive]_vars /\ WF_vars(LiveStep)

\* -------------------------------------------------------------- properties
\* A finished invocation of operation op on ride r; the responses of two
\* finished invocations are both readable only if the two overlapped.
Returned(c, op, r) == calls[c].op = op /\ calls[c].pc = "done" /\ calls[c].ride = r

Unclaimed == {"PENDING_ASSIGNMENT", "ASSIGNED"}

\* C1: of the acceptRide invocations that different workers issue concurrently
\* on a ride that is pending or assigned, exactly one succeeds, the others get
\* a conflict, and the ride's assigned worker is the one that succeeded.
C1_OneAcceptWins ==
  \A r \in RideIds : \A c, d \in Slots :
     (/\ c # d
      /\ Returned(c, "acceptRide", r) /\ Returned(d, "acceptRide", r)
      /\ calls[c].puller # calls[d].puller
      /\ pullers[calls[c].puller].status # "NONE" /\ pullers[calls[d].puller].status # "NONE"
      /\ calls[c].snapStatus \in Unclaimed /\ calls[d].snapStatus \in Unclaimed)
     => \/ calls[c].res = 200 /\ calls[d].res = 409 /\ rides[r].pullerId = calls[c].puller
        \/ calls[d].res = 200 /\ calls[c].res = 409 /\ rides[r].pullerId = calls[d].puller

\* C2: the acceptance timeout and acceptRide exclude each other on a ride: an
\* acceptRide never returns success on a ride that the timeout callback
\* expires, whichever of the two writes the ride's final status.
C2_TimeoutExcludesAccept ==
  \A r \in RideIds : \A c, d \in Slots :
     ~(/\ Returned(c, "acceptRide", r) /\ calls[c].res = 200
       /\ Returned(d, "timeout", r))

Closed == {"REJECTED", "CANCELLED"}

\* C3: an acceptRide or rejectRide on a ride that is expired, rejected or
\* cancelled fails with an error and leaves the ride's status and assigned
\* worker as they were.
C3_ClosedRideStaysClosed ==
  \A r \in RideIds : \A c \in Slots :
     (/\ Returned(c, "acceptRide", r) \/ Returned(c, "rejectRide", r)
      /\ calls[c].snapStatus \in Closed)
     => /\ calls[c].res \in {404, 409}
        /\ rides[r].status = calls[c].snapStatus
        /\ rides[r].pullerId = calls[c].snapPuller

\* C4: an acceptRide on a ride that another worker holds, or that is picked up
\* or completed, returns a conflict and leaves the ride's status, assigned
\* worker and acceptedAt as they were.
C4_AcceptOnlyWhenOpen ==
  \A r \in RideIds : \A c \in Slots :
     (/\ Returned(c, "acceptRide", r)
      /\ \/ calls[c].snapStatus = "ACCEPTED" /\ calls[c].snapPuller # calls[c].puller
         \/ calls[c].snapStatus \in {"PICKED_UP", "COMPLETED"})
     => /\ calls[c].res = 409
        /\ rides[r].status = calls[c].snapStatus
        /\ rides[r].pullerId = calls[c].snapPuller
        /\ rides[r].acceptedAt = calls[c].snapAt

\* C5: an acceptRide repeated by the worker that holds the ride succeeds and
\* changes nothing: status, assigned worker and acceptedAt are those of the
\* first accept, the worker is ON_TRIP, and no notification is sent.
C5_AcceptRetryIdempotent ==
  \A r \in RideIds : \A c \in Slots :
     (/\ Returned(c, "acceptRide", r)
      /\ calls[c].snapStatus = "ACCEPTED" /\ calls[c].snapPuller = calls[c].puller
      /\ pullers[calls[c].puller].status # "NONE")
     => /\ calls[c].res = 200
        /\ rides[r].status = "ACCEPTED"
        /\ rides[r].pullerId = calls[c].puller
        /\ rides[r].acceptedAt = calls[c].snapAt
        /\ pullers[calls[c].puller].status = "ON_TRIP"
        /\ ~activeRideRequests[r].present
        /\ out = {}

Held == {"ACCEPTED", "PICKED_UP", "ON_TRIP", "COMPLETED"}

\* C6: between operations, a ride has an assigned worker exactly when its
\* status is ACCEPTED, PICKED_UP, ON_TRIP or COMPLETED.
C6_AssignedIffHeld ==
  NumInFlight = 0
  => \A r \in RideIds : rides[r].status # "NONE"
        => (rides[r].pullerId # None <=> rides[r].status \in Held)

RidesInProgress(p) ==
  {r \in RideIds : rides[r].pullerId = p
                   /\ rides[r].status \in {"ACCEPTED", "PICKED_UP", "ON_TRIP"}}

\* C7: between operations, a worker is ON_TRIP exactly when it is the assigned
\* worker of exactly one ride that has not reached a terminal status.
C7_OnTripIffOneRide ==
  NumInFlight = 0
  => \A p \in Pullers : pullers[p].status # "NONE"
        => (pullers[p].status = "ON_TRIP" <=> Cardinality(RidesInProgress(p)) = 1)

\* An entry whose expiresAt has passed, and one that a compensating entry of
\* the sweep has reversed.
Lapsed(e) == e.expiresAt # NoTime /\ e.expiresAt < now

Reversed(e) ==
  \E j \in 1..Len(ledger) : /\ ledger[j].reason = "expired"
                            /\ ledger[j].pullerId = e.pullerId
                            /\ ledger[j].delta = 0 - e.delta

RECURSIVE SumLive(_, _)
SumLive(p, n) ==
  IF n = 0 THEN 0
  ELSE SumLive(p, n - 1)
       + (IF /\ ledger[n].pullerId = p /\ ledger[n].reason # "expired"
             /\ ~Lapsed(ledger[n]) /\ ~Reversed(ledger[n])
          THEN ledger[n].delta ELSE 0)

\* C8: when an expiration sweep has run, after any completions and
\* redemptions, each worker's totalPoints is the sum of the deltas of its
\* ledger entries that have neither lapsed nor been reversed.
C8_TotalIsLiveSum ==
  (\E c \in Slots : calls[c].op = "expireOldPoints" /\ calls[c].pc = "done")
  => \A p \in Pullers : pullers[p].status # "NONE"
        => pullers[p].totalPoints = SumLive(p, Len(ledger))

\* C9: when the acceptance timeout of an assigned ride has run with no
\* acceptance, the ride is in its expired status, every candidate that is
\* connected has been sent a cancellation notice, and the ride's pending
\* assignment is discarded.
C9_TimeoutExpiresAndNotifies ==
  \A r \in RideIds : \A c \in Slots :
     Returned(c, "timeout", r)
     => /\ rides[r].status = "REJECTED"
        /\ ~activeRideRequests[r].present
        /\ r \notin rideAcceptanceTimeouts
        /\ \A q \in SeqToSet(calls[c].todo) :
              pullerSockets[q] # None
              => \E m \in out : /\ m.to = pullerSockets[q]
                                /\ m.type = "CANCEL_RIDE"
                                /\ m.rideId = r

Reachable(p) ==
  /\ pullers[p].status = "AVAILABLE"
  /\ pullers[p].loc # None
  /\ pullerSockets[p] # None

\* C10: a ride that is PENDING_ASSIGNMENT while a worker is registered,
\* available and of known location is eventually ASSIGNED, with no further
\* requestRide.
C10_PendingRideGetsAssigned ==
  \A r \in RideIds :
     (rides[r].status = "PENDING_ASSIGNMENT" /\ \E p \in Pullers : Reachable(p))
     ~> (rides[r].status # "PENDING_ASSIGNMENT")

\* A finished rejectRide on ride r by the puller that held it ACCEPTED.
HolderRejected(c, r) ==
  /\ Returned(c, "rejectRide", r)
  /\ calls[c].snapStatus = "ACCEPTED" /\ calls[c].snapPuller = calls[c].puller

\* The pullers a broadcast reaches, the rejecting puller p left out.
Remaining(p) ==
  {q \in Pullers \ {p} : pullers[q].status = "AVAILABLE" /\ pullerSockets[q] # None}

\* C11: when the puller that holds an ACCEPTED ride rejects it, the ride is
\* ASSIGNED again and ASSIGN_RIDE goes to every remaining registered candidate
\* and never to the rejecting puller.
C11_HolderRejectRebroadcasts ==
  \A r \in RideIds : \A c \in Slots :
     HolderRejected(c, r)
     => /\ rides[r].status = "ASSIGNED"
        /\ \A q \in Remaining(calls[c].puller) :
              \E m \in out : m.type = "ASSIGN_RIDE" /\ m.rideId = r /\ m.to = pullerSockets[q]
        /\ \A m \in out : m.type = "ASSIGN_RIDE" => m.puller # calls[c].puller

\* C12: after the holder's rejectRide has re-broadcast a ride to a remaining
\* candidate, a pending assignment and a fresh 60-second timer are armed for
\* the ride, so that it expires if nobody accepts.
C12_HolderRejectRearms ==
  \A r \in RideIds : \A c \in Slots :
     (HolderRejected(c, r) /\ Remaining(calls[c].puller) # {})
     => /\ activeRideRequests[r].present
        /\ r \in rideAcceptanceTimeouts
        /\ r \in timers

NonTerminal == {"PENDING_ASSIGNMENT", "ASSIGNED", "ACCEPTED", "PICKED_UP", "ON_TRIP"}

C15_CompleteByStrangerRefused ==
  \A r \in RideIds : \A c \in Slots :
     (/\ Returned(c, "completeRide", r)
      /\ calls[c].snapStatus # "NONE"
      /\ calls[c].snapPuller # calls[c].puller)
     => /\ calls[c].res \in {401, 403}
        /\ rides[r].status = calls[c].snapStatus
        /\ rides[r].pullerId = calls[c].snapPuller

\* C16: when the socket of a puller that holds a ride in progress has closed,
\* the puller is still ON_TRIP and the ride keeps its status and its puller.
C16_CloseKeepsAssignment ==
  \A c \in Slots :
     (/\ calls[c].op = "close" /\ calls[c].pc = "done"
      /\ RidesInProgress(calls[c].puller) # {})
     => pullers[calls[c].puller].status = "ON_TRIP"

\* The edges of the ride state machine, in the statuses the rides are stored
\* with: an expiry is stored as REJECTED, and a picked-up ride is completed
\* from PICKED_UP.
Edges ==
  {<<"NONE", "PENDING_ASSIGNMENT">>, <<"PENDING_ASSIGNMENT", "ASSIGNED">>,
   <<"ASSIGNED", "ACCEPTED">>, <<"ACCEPTED", "PICKED_UP">>,
   <<"PICKED_UP", "ON_TRIP">>, <<"ON_TRIP", "COMPLETED">>,
   <<"PICKED_UP", "COMPLETED">>, <<"ACCEPTED", "ASSIGNED">>}
  \cup {<<s, "REJECTED">> : s \in NonTerminal}

\* C17: every change of a ride's status follows an edge of the state machine;
\* a ride that is COMPLETED, REJECTED or CANCELLED never changes status again.
C17_StatusFollowsEdges ==
  [][\A r \in RideIds :
        rides'[r].status # rides[r].status
        => <<rides[r].status, rides'[r].status>> \in Edges]_vars

\* The compensating entries of the sweep that match ledger entry i, and the
\* positive entries of the same puller and amount.
Compensations(i) ==
  {j \in 1..Len(ledger) : /\ ledger[j].reason = "expired"
                          /\ ledger[j].pullerId = ledger[i].pullerId
                          /\ ledger[j].delta = 0 - ledger[i].delta}

Awards(i) ==
  {j \in 1..Len(ledger) : /\ ledger[j].delta > 0
                          /\ ledger[j].pullerId = ledger[i].pullerId
                          /\ ledger[j].delta = ledger[i].delta}

\* C18: however often the expiration sweep runs, each positive ledger entry
\* has at most one compensating negative entry.
C18_CompensatedAtMostOnce ==
  \A i \in 1..Len(ledger) :
     ledger[i].delta > 0 => Cardinality(Compensations(i)) <= Cardinality(Awards(i))

\* C19: when the expiration sweep has run, the positive ledger entries that
\* have a compensating entry are exactly those whose expiresAt is earlier
\* than the time of the run; entries with no expiresAt or a later one have
\* none.
C19_SweepCompensatesLapsed ==
  (\E c \in Slots : calls[c].op = "expireOldPoints" /\ calls[c].pc = "done")
  => \A i \in 1..Len(ledger) :
        ledger[i].delta > 0 => (Lapsed(ledger[i]) <=> Compensations(i) # {})

\* C20: a broadcast sends ASSIGN_RIDE to every candidate, and the message to
\* a candidate carries priority HIGH if the candidate is less than 1000 m
\* from the pickup and NORMAL otherwise.
C20_BroadcastCarriesPriority ==
  \A c \in Slots :
     (calls[c].op = "requestRide" /\ calls[c].pc = "save")
     => \A q \in SeqToSet(calls[c].todo) :
           \E m \in out :
              /\ m.type = "ASSIGN_RIDE" /\ m.rideId = calls[c].ride
              /\ m.to = pullerSockets[q]
              /\ m.priority = IF ProximityOf(calls[c].n, q) < 1000 THEN "HIGH" ELSE "NORMAL"

\* The connections of the pullers that are registered, AVAILABLE and of known
\* location.
ReachableSockets == {pullerSockets[q] : q \in {p \in Pullers : Reachable(p)}}

\* C21: the ASSIGN_RIDE messages of a broadcast go to exactly the pullers
\* that are registered, AVAILABLE and of known location at request time.
C21_RecipientsAreReachable ==
  \A c \in Slots :
     (calls[c].op = "requestRide" /\ calls[c].pc = "save")
     => {m.to : m \in {x \in out : x.type = "ASSIGN_RIDE"}} = ReachableSockets

\* C22: once an acceptRide of a broadcast (ASSIGNED) ride has succeeded, the
\* ride's acceptance timeout is cancelled and cannot fire for it, its pending
\* assignment is gone, and the accepting puller is ON_TRIP.
C22_AcceptCancelsTimeout ==
  \A r \in RideIds : \A c \in Slots :
     (/\ Returned(c, "acceptRide", r) /\ calls[c].res = 200
      /\ calls[c].snapStatus = "ASSIGNED"
      /\ pullers[calls[c].puller].status # "NONE")
     => /\ r \notin timers
        /\ r \notin rideAcceptanceTimeouts
        /\ ~activeRideRequests[r].present
        /\ \A d \in Slots : ~(calls[d].op = "timeout" /\ calls[d].ride = r /\ InFlight(d))
        /\ pullers[calls[c].puller].status = "ON_TRIP"

\* C23: a rejectRide by a puller that never held the ride, on a ride that is
\* pending or assigned, changes neither the ride's status nor its assigned
\* puller, and the ride's pending assignment and timer stay as they were.
C23_DeclineIsNoOp ==
  \A r \in RideIds : \A c \in Slots :
     (/\ Returned(c, "rejectRide", r)
      /\ calls[c].snapStatus \in Unclaimed
      /\ calls[c].snapPuller # calls[c].puller)
     => /\ rides[r].status = calls[c].snapStatus
        /\ rides[r].pullerId = calls[c].snapPuller
        /\ (calls[c].snapStatus = "ASSIGNED" => activeRideRequests[r].present /\ r \in timers)

\* C24: after every successful completeRide, whichever branch it took, the
\* ride is COMPLETED and the completing puller is AVAILABLE.
C24_CompleteFreesPuller ==
  \A r \in RideIds : \A c \in Slots :
     (/\ Returned(c, "completeRide", r) /\ calls[c].res = 200
      /\ pullers[calls[c].puller].status # "NONE")
     => /\ rides[r].status = "COMPLETED"
        /\ pullers[calls[c].puller].status = "AVAILABLE"

\* C25: a successful completeRide ends in manual review (rewardPoints null,
\* PENDING_MANUAL_REVIEW) exactly when the destination's coordinates or the
\* drop location are unavailable; drop coordinates that are sent, a
\* coordinate of value 0 included, do not take that branch.
C25_ManualOnlyWithoutCoordinates ==
  \A r \in RideIds : \A c \in Slots :
     (Returned(c, "completeRide", r) /\ calls[c].res = 200)
     => /\ rides[r].status = "COMPLETED"
        /\ (rides[r].verif = "PENDING_MANUAL_REVIEW" /\ rides[r].rewardPoints = NoPoints)
           <=> (~calls[c].flag \/ calls[c].n = NoDrop)

C27_SendFailureSwallowed ==
  \A c \in Slots :
     (/\ calls[c].op = "requestRide" /\ calls[c].pc = "done" /\ calls[c].ride # None
      /\ Len(Online(calls[c].todo)) > 0)
     => /\ rides[calls[c].ride].status = "ASSIGNED"
        /\ activeRideRequests[calls[c].ride].present
        /\ calls[c].ride \in timers


\* The recent completed rides of p whose recorded drop distance is under 1 m.
UnderOneMetre(p) ==
  {r \in DOMAIN rides : /\ rides[r].pullerId = p /\ rides[r].status = "COMPLETED"
                        /\ rides[r].completedAt >= now - FraudWindow
                        /\ rides[r].dropDistance # NoDrop
                        /\ rides[r].dropDistance < DM_PER_M}

\* C28: once the fraud check of a puller has returned, the puller is flagged
\* and SUSPENDED exactly when more than 5 of their rides completed in the last
\* 7 days have a recorded drop distance under 1 m, 0 m included; the ledger
\* and the totals are as the completions left them.
C28_FlaggedIffMoreThanFive ==
  \A c \in Slots :
     (calls[c].op = "detectFraud" /\ calls[c].pc = "done")
     => LET p == calls[c].puller
        IN /\ calls[c].flag <=> Cardinality(UnderOneMetre(p)) > FRAUD_THRESHOLD
           /\ (pullers[p].status = "SUSPENDED") <=> calls[c].flag
           /\ ledger = HistoryLedger(rides)
           /\ pullers[p].totalPoints = HistoryPoints(rides, p)


\* A request that lacks a required field: requestRide without blockId,
\* updateLocation without pullerId or coordinates, acceptRide or completeRide
\* without pullerId.
MissingField(c) ==
  \/ calls[c].op = "requestRide" /\ calls[c].n = None
  \/ calls[c].op = "updateLocation" /\ (calls[c].puller = None \/ calls[c].n = None)
  \/ calls[c].op \in {"acceptRide", "completeRide"} /\ calls[c].puller = None

\* C29: a request that lacks a required field is refused on entry with an
\* error response: it never gets to a step that reads or writes state.
C29_MissingFieldRejected ==
  \A c \in Slots :
     MissingField(c) => calls[c].pc = "done" /\ calls[c].res \in 400..499


C31_RegisterIdempotent ==
  \A c \in Slots :
     (calls[c].op = "register" /\ calls[c].pc = "done")
     => /\ pullerSockets[calls[c].puller] = calls[c].n
        /\ pullers[calls[c].puller].status = "AVAILABLE"

\* A puller registered a second time, on another connection than the one it
\* is still registered on.
C31_Witness ==
  \E c \in Slots, w \in Conns :
     /\ calls[c].op = "register" /\ calls[c].pc = "done"
     /\ w # calls[c].n /\ conns[w].open /\ conns[w].pullerId = calls[c].puller


\* C32: a SUSPENDED puller is sent no ASSIGN_RIDE, is made the puller of no
\* ride, and stays SUSPENDED in every step but the admin status action that
\* sets it to AVAILABLE.
C32_SuspendedStaysSuspended ==
  [][\A p \in Pullers :
       pullers[p].status = "SUSPENDED"
       => /\ \A m \in out' : ~(m.type = "ASSIGN_RIDE" /\ m.puller = p)
          /\ \A r \in RideIds : rides'[r].pullerId = p => rides[r].pullerId = p
          /\ pullers'[p].status = "SUSPENDED" \/ AdminStatus(1, p, "AVAILABLE")]_vars


\* C33: every step leaves the entries the ledger has as they are, in their
\* places; it can only add entries after them.
C33_LedgerAppendOnly ==
  [][/\ Len(ledger') >= Len(ledger)
     /\ SubSeq(ledger', 1, Len(ledger)) = ledger]_vars

\* The sweep has recorded the expiry of an award as a new negative entry, the
\* award's own entry still in the ledger.
C33_Witness ==
  \E i, j \in 1..Len(ledger) :
     /\ i < j
     /\ ledger[i].reason = "drop" /\ ledger[i].delta > 0
     /\ ledger[j].reason = "expired" /\ ledger[j].delta = 0 - ledger[i].delta


\* C34: between operations, a ride has a pending assignment (its entry of
\* activeRideRequests and its timeout handle) exactly when its status is
\* ASSIGNED.
C34_PendingIffAssigned ==
  NumInFlight = 0
  => \A r \in RideIds :
        /\ activeRideRequests[r].present <=> rides[r].status = "ASSIGNED"
        /\ r \in rideAcceptanceTimeouts <=> rides[r].status = "ASSIGNED"


\* C35: no step of a completeRide that found its ride already COMPLETED
\* changes the ride's reward points or completion time, adds a ledger entry or
\* raises a puller's totalPoints.
C35_CompletedRideAwardsOnce ==
  [][\A c \in Slots :
       (calls[c].op = "completeRide" /\ InFlight(c) /\ calls[c].snapStatus = "COMPLETED")
       => /\ rides'[calls[c].ride].rewardPoints = rides[calls[c].ride].rewardPoints
          /\ rides'[calls[c].ride].completedAt = rides[calls[c].ride].completedAt
          /\ ledger' = ledger
          /\ \A p \in Pullers : pullers'[p].totalPoints <= pullers[p].totalPoints]_vars


\* C36: no puller is the puller of two rides that are ACCEPTED, PICKED_UP or
\* ON_TRIP at once.
C36_OneRidePerPuller ==
  \A p \in Pullers : Cardinality(RidesInProgress(p)) <= 1


\* C37: no block has two rides that are PENDING_ASSIGNMENT, ASSIGNED or
\* ACCEPTED and were requested less than five minutes apart.
C37_OneRidePerBlockAndWindow ==
  \A r, q \in RideIds :
     (/\ r # q /\ rides[r].blockId # None /\ rides[r].blockId = rides[q].blockId
      /\ rides[r].status \in {"PENDING_ASSIGNMENT", "ASSIGNED", "ACCEPTED"}
      /\ rides[q].status \in {"PENDING_ASSIGNMENT", "ASSIGNED", "ACCEPTED"}
      /\ rides[r].createdAt <= rides[q].createdAt)
     => rides[q].createdAt - rides[r].createdAt >= DEDUP_WINDOW_MIN


\* C38: no puller's totalPoints is ever below zero.
C38_TotalNeverNegative ==
  \A p \in Pullers : pullers[p].totalPoints >= 0


\* C39: the close of a connection leaves the registry entry of every puller
\* that is registered on another connection as it is.
C39_CloseOfReplacedKeepsEntry ==
  [][\A w \in Conns :
       (conns[w].open /\ ~conns'[w].open)
       => \A p \in Pullers :
             (pullerSockets[p] # None /\ pullerSockets[p] # w)
             => pullerSockets'[p] = pullerSockets[p]]_vars


\* The sum of the deltas of the ledger entries of p.
LedgerSum(p) ==
  LET Mine(e) == e.pullerId = p IN SumDeltas(SelectSeq(ledger, Mine))

\* C40: when no handler is in progress, the totalPoints of every puller that
\* has a document is the sum of the deltas of the puller's ledger entries.
C40_TotalIsLedgerSum ==
  NumInFlight = 0
  => \A p \in Pullers : pullers[p].status # "NONE"
        => pullers[p].totalPoints = LedgerSum(p)

=============================================================================
